---- MODULE Spec2Model ----
(***************************************************************************)
(* vue-class-api: the decorators (@Prop, @Expose, @Emits, @Watch, @Ref,    *)
(* @Provide, @Inject, @Hook) that record metadata on a class prototype and *)
(* the @Component class decorator that assembles the Vue options object.   *)
(*                                                                         *)
(* Objects with identity that the code mutates are kept in stores: the     *)
(* metadata side table (meta), the arrays used as hook lists (heap), the   *)
(* options objects handed to Component (options) and the objects that      *)
(* fields and component data hold (objects).  A JavaScript object          *)
(* used as a dictionary is a TLA+ function whose DOMAIN is its key set; a  *)
(* possibly-undefined value v is <<>> (undefined) or <<v>>; the name and    *)
(* setup entries of an options object are kept in that form.               *)
(***************************************************************************)
EXTENDS Integers, Sequences, FiniteSets, TLC

VARIABLES
    klass,      \* the declared classes: prototype members, instance fields, statics
    meta,       \* Reflect metadata: class -> (metadata key -> value)
    heap,       \* arrays with identity (hook lists); an address is an index
    options,    \* the options objects passed to Component(options)
    objects,    \* the objects held by instance fields and by component data
    declared,   \* history: the decorator applications, in application order
    calls,      \* history: the applications of the Component decorator function
    returned    \* history: the calls of assembled data functions

vars == << klass, meta, heap, options, objects, declared, calls, returned >>

-----------------------------------------------------------------------------
(* Constants of the source                                                 *)

metadataKeys ==
    [ watch |-> "__WATCH__", props |-> "__PROPS__", emits |-> "__EMITS__",
      expose |-> "__EXPOSE__", ref |-> "__REF__", provide |-> "__PROVIDE__",
      inject |-> "__INJECT__", hooks |-> "__HOOKS__" ]

excludedClassProperties ==
    { "length", "constructor", "prototype", "arguments", "callee", "caller" }

excludedProperties ==
    { "provide", "inject", "name", "props", "emits", "expose", "watch",
      "computed", "mixins", "$", "$data", "$props", "$attrs", "$refs",
      "$slots", "$root", "$parent", "$emit", "$el", "$options" }

hookNames ==
    << "beforeCreate", "created", "beforeMount", "mounted", "beforeUpdate",
       "updated", "activated", "deactivated", "beforeDestroy", "beforeUnmount",
       "destroyed", "unmounted", "renderTracked", "renderTriggered",
       "errorCaptured" >>

-----------------------------------------------------------------------------
(* Bounds                                                                  *)

MaxDecorators == 2      \* decorator applications per behaviour
MaxCalls      == 2      \* Component(options)(VueClass) calls per behaviour
MaxNesting    == 3      \* depth to which an array of arrays is read out
MaxDataCalls  == 2      \* calls of assembled data functions per behaviour
MaxMutations  == 2      \* entries of returned data that are overwritten

-----------------------------------------------------------------------------
(* Values                                                                  *)

Range(s)     == { s[i] : i \in 1..Len(s) }
EmptyMap     == [k \in {} |-> 0]
undefined    == << >>
Some(v)      == << v >>
IsDefined(m) == m # << >>

\* {...a, ...b}: the keys of both, b's value on a conflict
Spread(a, b) ==
    [k \in DOMAIN a \cup DOMAIN b |-> IF k \in DOMAIN b THEN b[k] ELSE a[k]]

Put(o, k, v)  == [x \in DOMAIN o \cup {k} |-> IF x = k THEN v ELSE o[x]]
\* o[k] read as JavaScript reads a property: undefined when it is missing
Get(o, k)     == IF k \in DOMAIN o THEN Some(o[k]) ELSE undefined

\* a function value: the method `fn` of class `of` ("options" for a function
\* written in the options object); an array value: the array at address arr
Fn(of, name)  == [fn |-> name, of |-> of, arr |-> 0]
Arr(a)        == [fn |-> "", of |-> "", arr |-> a]
IsArr(v)      == v.arr # 0

unshift(list, v) == << v >> \o list
push(list, v)    == Append(list, v)

\* Set.prototype.add over a Set kept in insertion order
SetAdd(s, v)  == IF v \in Range(s) THEN s ELSE Append(s, v)

\* every name kept, whether or not the set has it
AddAllKeepingDuplicates(s, names) == s \o names

\* eventNames.forEach(name => emits.add(name))
RECURSIVE SetAddAll(_, _)
SetAddAll(s, names) ==
    IF names = << >> THEN s ELSE SetAddAll(SetAdd(s, Head(names)), Tail(names))

-----------------------------------------------------------------------------
(* reflect-metadata.ts                                                     *)

Classes == { "MyComponent" }

\* Reflect.getMetadata walks the prototype chain: the class that holds the
\* value found for key, "none" when no class of the chain has one
RECURSIVE MetadataOwner(_, _)
MetadataOwner(metadataKey, target) ==
    IF target = "none" THEN "none"
    ELSE IF metadataKey \in DOMAIN meta[target] THEN target
    ELSE MetadataOwner(metadataKey, klass[target].parent)

getMetadata(metadataKey, target) ==
    LET owner == MetadataOwner(metadataKey, target)
    IN  IF owner = "none" THEN undefined ELSE Some(meta[owner][metadataKey])

\* meta after Reflect.defineMetadata(metadataKey, metadataValue, target)
setMetadata(m, metadataKey, metadataValue, target) ==
    [m EXCEPT ![target] = Put(m[target], metadataKey, metadataValue)]

\* the object ensureMetadata returns: the one found through the chain, else
\* metadataValue, which it defines on target
ensureMetadata(metadataKey, metadataValue, target) ==
    LET found == getMetadata(metadataKey, target)
    IN  IF IsDefined(found) THEN found[1] ELSE metadataValue

\* meta once the caller has updated the object ensureMetadata returned: the
\* object is updated in place, in the class where it lives
Updated(metadataKey, target, value) ==
    LET owner == MetadataOwner(metadataKey, target)
    IN  setMetadata(meta, metadataKey, value,
                    IF owner = "none" THEN target ELSE owner)

-----------------------------------------------------------------------------
(* The member decorators                                                   *)

\* Member decorators run while the class body is evaluated, before the class
\* decorator of that class is applied
Declaring(target) ==
    /\ Len(declared) < MaxDecorators
    /\ \A i \in 1..Len(calls) : calls[i].VueClass # target

Record(decorator, target, propertyKey, args) ==
    declared' = Append(declared,
        [decorator |-> decorator, target |-> target,
         propertyKey |-> propertyKey, args |-> args])

\* target[propertyKey] for a member of the prototype
ProtoValue(target, propertyKey) ==
    IF /\ propertyKey \in DOMAIN klass[target].proto
       /\ klass[target].proto[propertyKey] = "method"
    THEN Some(Fn(target, propertyKey))
    ELSE undefined

\* Reflect.getMetadata('design:type', target, propertyKey)
DesignType(target, propertyKey) == Get(klass[target].designTypes, propertyKey)

\* the prop options after Prop has filled in a missing type
PropWithType(propOptions, target, propertyKey) ==
    IF propOptions.kind = "object" /\ ~IsDefined(propOptions.type)
    THEN [propOptions EXCEPT !.type = DesignType(target, propertyKey)]
    ELSE propOptions

Prop(target, propertyKey, propOptions) ==
    /\ Declaring(target)
    /\ LET props == ensureMetadata(metadataKeys.props, EmptyMap, target)
       IN  meta' = Updated(metadataKeys.props, target,
                     Put(props, propertyKey,
                         PropWithType(propOptions, target, propertyKey)))
    /\ Record("Prop", target, propertyKey, << propOptions >>)
    /\ UNCHANGED << klass, heap, options, objects, calls, returned >>

Expose(target, propertyKey) ==
    /\ Declaring(target)
    /\ LET expose == ensureMetadata(metadataKeys.expose, << >>, target)
       IN  meta' = Updated(metadataKeys.expose, target, push(expose, propertyKey))
    /\ Record("Expose", target, propertyKey, << >>)
    /\ UNCHANGED << klass, heap, options, objects, calls, returned >>

Emits(target, propertyKey, eventNames) ==
    /\ Declaring(target)
    /\ LET emits == ensureMetadata(metadataKeys.emits, << >>, target)
       IN  meta' = Updated(metadataKeys.emits, target, SetAddAll(emits, eventNames))
    /\ Record("Emits", target, propertyKey, eventNames)
    /\ UNCHANGED << klass, heap, options, objects, calls, returned >>

Watch(target, propertyKey, expression, watchOptions) ==
    /\ Declaring(target)
    /\ LET watch == ensureMetadata(metadataKeys.watch, EmptyMap, target)
       IN  meta' = Updated(metadataKeys.watch, target,
                     Put(watch, expression,
                         Put(watchOptions, "handler",
                             ProtoValue(target, propertyKey))))
    /\ Record("Watch", target, propertyKey, << expression >>)
    /\ UNCHANGED << klass, heap, options, objects, calls, returned >>

Ref(target, propertyKey) ==
    /\ Declaring(target)
    /\ LET refs == ensureMetadata(metadataKeys.ref, << >>, target)
       IN  meta' = Updated(metadataKeys.ref, target, push(refs, propertyKey))
    /\ Record("Ref", target, propertyKey, << >>)
    /\ UNCHANGED << klass, heap, options, objects, calls, returned >>

\* alias is undefined or a name; alias || propertyKey
Provide(target, propertyKey, alias) ==
    /\ Declaring(target)
    /\ LET provide == ensureMetadata(metadataKeys.provide, EmptyMap, target)
       IN  meta' = Updated(metadataKeys.provide, target,
                     Put(provide,
                         IF IsDefined(alias) THEN alias[1] ELSE propertyKey,
                         propertyKey))
    /\ Record("Provide", target, propertyKey, alias)
    /\ UNCHANGED << klass, heap, options, objects, calls, returned >>

InjectConfig(propertyKey, alias, defaultValue) ==
    [k \in {"from", "default"} |->
        IF k = "from"
        THEN (IF IsDefined(alias) THEN alias[1] ELSE propertyKey)
        ELSE defaultValue]

Inject(target, propertyKey, alias, defaultValue) ==
    /\ Declaring(target)
    /\ LET inject == ensureMetadata(metadataKeys.inject, EmptyMap, target)
       IN  meta' = Updated(metadataKeys.inject, target,
                     Put(inject, propertyKey,
                         InjectConfig(propertyKey, alias, defaultValue)))
    /\ Record("Inject", target, propertyKey, alias)
    /\ UNCHANGED << klass, heap, options, objects, calls, returned >>

\* hooks[name] = hooks[name] || []; hooks[name].push(desc.value): the hooks
\* object maps a hook name to the address of its array
Hook(target, propertyKey, name) ==
    /\ Declaring(target)
    /\ LET hooks  == ensureMetadata(metadataKeys.hooks, EmptyMap, target)
           fresh  == name \notin DOMAIN hooks
           addr   == IF fresh THEN Len(heap) + 1 ELSE hooks[name]
           before == IF fresh THEN << >> ELSE heap[addr]
           after  == push(before, Fn(target, propertyKey))
       IN  /\ meta' = Updated(metadataKeys.hooks, target, Put(hooks, name, addr))
           /\ heap' = IF fresh THEN Append(heap, after)
                               ELSE [heap EXCEPT ![addr] = after]
    /\ Record("Hook", target, propertyKey, << name >>)
    /\ UNCHANGED << klass, options, objects, calls, returned >>

-----------------------------------------------------------------------------
(* Component(options): the call that receives the options object           *)

\* An options object as written by the caller.  A lifecycle entry is written
\* as [array |-> FALSE, items |-> <<f>>] for the function f and as
\* [array |-> TRUE, items |-> <<f, g>>] for the array [f, g]; an array is an
\* object of its own and is placed on the heap.
RECURSIVE PlaceHooks(_, _, _)
PlaceHooks(o, h, i) ==
    IF i > Len(hookNames) THEN [options |-> o, heap |-> h]
    ELSE LET hookName == hookNames[i]
         IN  IF hookName \notin DOMAIN o THEN PlaceHooks(o, h, i + 1)
             ELSE IF o[hookName].array
             THEN PlaceHooks(Put(o, hookName, Arr(Len(h) + 1)),
                             Append(h, o[hookName].items), i + 1)
             ELSE PlaceHooks(Put(o, hookName, o[hookName].items[1]), h, i + 1)

Component(written) ==
    /\ Len(options) < MaxCalls
    /\ LET placed == PlaceHooks(written, heap, 1)
       IN  /\ options' = Append(options, placed.options)
           /\ heap' = placed.heap
    /\ UNCHANGED << klass, meta, objects, declared, calls, returned >>

-----------------------------------------------------------------------------
(* The function Component returns, applied to VueClass: the sections in    *)
(* the order of the source.  Each operator gives the options object after  *)
(* its step.                                                               *)

\* Object.getOwnPropertyDescriptors(new VueClass())
instanceProperties(VueClass) == klass[VueClass].fields
\* Object.getOwnPropertyDescriptors(VueClass.prototype)
prototypeProperties(VueClass) == klass[VueClass].proto
\* Object.getOwnPropertyDescriptors(VueClass)
staticProperties(VueClass) == klass[VueClass].statics

\* VueClass.prototype[propertyKey], found through the prototype chain
RECURSIVE PrototypeLookup(_, _)
PrototypeLookup(VueClass, propertyKey) ==
    IF VueClass = "none" THEN undefined
    ELSE IF propertyKey \in DOMAIN klass[VueClass].proto
    THEN ProtoValue(VueClass, propertyKey)
    ELSE PrototypeLookup(klass[VueClass].parent, propertyKey)

\* VueClass[propertyKey], found through the chain of constructors
RECURSIVE StaticLookup(_, _)
StaticLookup(VueClass, propertyKey) ==
    IF VueClass = "none" THEN undefined
    ELSE IF propertyKey \in DOMAIN klass[VueClass].statics
    THEN Some(klass[VueClass].statics[propertyKey])
    ELSE StaticLookup(klass[VueClass].parent, propertyKey)

\* A field holds a number, [kind |-> "value"], or an object literal,
\* [kind |-> "object"], written as the sequence of the objects it creates,
\* the outermost first, one referring to another by its place in the sequence.
\* In the store a value is a number or the address of an object.
At(address)    == [kind |-> "ref", value |-> address]
Shift(v, base) == IF v.kind = "ref" THEN At(v.value + base) ELSE v

\* the objects of an object literal, placed in the store after `base` objects
Placed(literal, base) ==
    [n \in 1..Len(literal) |->
        [key \in DOMAIN literal[n] |-> Shift(literal[n][key], base)]]

\* the field initialisers run for the fields named in keys
RECURSIVE Initialise(_, _, _, _)
Initialise(fields, keys, store, instance) ==
    IF keys = {} THEN [objects |-> store, instance |-> instance]
    ELSE LET k == CHOOSE x \in keys : TRUE
         IN  IF fields[k].kind = "object"
             THEN Initialise(fields, keys \ {k},
                             store \o Placed(fields[k].value, Len(store)),
                             Put(instance, k, At(Len(store) + 1)))
             ELSE Initialise(fields, keys \ {k}, store, Put(instance, k, fields[k]))

\* new VueClass(): the store with the objects the instance holds, and the
\* own properties of the instance
NewInstance(VueClass, store) ==
    Initialise(klass[VueClass].fields, DOMAIN klass[VueClass].fields,
               store, EmptyMap)

MetadataOr(metadataKey, VueClass, default) ==
    LET found == getMetadata(metadataKey, VueClass)
    IN  IF IsDefined(found) THEN found[1] ELSE default

\* options.provide = function() { ... }: a closure over the provide metadata
\* object and the provide option it replaces
ProvideSection(VueClass, o) ==
    Put(o, "provide",
        [kind |-> "provideFactory",
         provide |-> MetadataOwner(metadataKeys.provide, VueClass),
         optionsProvide |-> Get(o, "provide")])

\* A call of the assembled provide function with the component vm as its
\* receiver.  The provide option is an object, or a function, which the
\* assembled function calls as optionsProvide(), with no receiver: a
\* function that reads `this` then throws a TypeError.
ProvideOf(provideFactory, vm) ==
    LET provide == IF provideFactory.provide = "none" THEN EmptyMap
                   ELSE meta[provideFactory.provide][metadataKeys.provide]
        wrapped == [alias \in DOMAIN provide |->
                      [kind |-> "computed", of |-> vm, member |-> provide[alias]]]
        given   == provideFactory.optionsProvide
    IN  IF ~IsDefined(given) THEN [threw |-> FALSE, result |-> wrapped]
        ELSE IF given[1].kind = "function" /\ given[1].usesThis
        THEN [threw |-> TRUE, result |-> EmptyMap]
        ELSE [threw |-> FALSE, result |-> Spread(wrapped, given[1].returns)]

\* the property name of index i of an array or a string
IndexKey(i) == << "0", "1", "2", "3" >>[i + 1]

\* _.keyBy(names): each name as the key of itself, a later one over an earlier
RECURSIVE keyBy(_)
keyBy(names) ==
    IF names = << >> THEN EmptyMap
    ELSE LET n == Len(names)
         IN  Put(keyBy(SubSeq(names, 1, n - 1)), names[n], names[n])

\* the index of an array element kept as its key
IndexKeyed(names) ==
    [k \in { IndexKey(i) : i \in 0..(Len(names) - 1) } |-> EmptyMap]

\* _(names).keyBy().mapValues(() => ({})).valueOf()
KeyByMapValues(names) == [k \in DOMAIN keyBy(names) |-> EmptyMap]

\* the own enumerable properties that {...value} copies: the entries of an
\* object, the indexed elements of an array or of a string, nothing of a number
SpreadOf(value) ==
    IF value.shape = "object" THEN value.map
    ELSE IF value.shape = "array" \/ value.shape = "string"
    THEN [k \in { IndexKey(i) : i \in 0..(Len(value.items) - 1) } |->
            value.items[(CHOOSE i \in 0..(Len(value.items) - 1) : IndexKey(i) = k) + 1]]
    ELSE EmptyMap

InjectSection(VueClass, o) ==
    LET given == IF "inject" \in DOMAIN o /\ o["inject"].shape = "array"
                 THEN Some([shape |-> "object",
                            map |-> KeyByMapValues(o["inject"].items)])
                 ELSE Get(o, "inject")
        own   == IF IsDefined(given) THEN SpreadOf(given[1]) ELSE EmptyMap
    IN  Put(o, "inject",
            [shape |-> "object",
             map |-> Spread(MetadataOr(metadataKeys.inject, VueClass, EmptyMap), own)])

PropsSection(VueClass, o) ==
    Put(o, "props",
        Spread(MetadataOr(metadataKeys.props, VueClass, EmptyMap),
               IF "props" \in DOMAIN o THEN o["props"] ELSE EmptyMap))

refsOf(VueClass) == MetadataOr(metadataKeys.ref, VueClass, << >>)

ComputedSection(VueClass, o) ==
    LET proto     == prototypeProperties(VueClass)
        accessors == [k \in { m \in DOMAIN proto : proto[m] = "accessor" } |->
                        [kind |-> "accessor", of |-> VueClass, name |-> k]]
        merged    == Spread(accessors,
                        IF "computed" \in DOMAIN o THEN o["computed"] ELSE EmptyMap)
        refs      == refsOf(VueClass)
    IN  Put(o, "computed",
            [k \in DOMAIN merged \cup Range(refs) |->
                IF k \in Range(refs)
                THEN [kind |-> "ref", of |-> VueClass, name |-> k]
                ELSE merged[k]])

\* !options.props[propertyKey] is false: the entry exists and is not null
PropTruthy(entry) == IsDefined(entry) /\ entry[1].kind # "null"
\* !options.inject[propertyKey] is false: an entry is an object or a character
InjectTruthy(entry) == IsDefined(entry)

\* the classifier without the test for a prop
dataPropertiesWithProps(VueClass, o) ==
    LET fields == instanceProperties(VueClass)
    IN  { propertyKey \in DOMAIN fields :
            /\ fields[propertyKey].kind # "accessor"
            /\ fields[propertyKey].kind # "function"
            /\ propertyKey \notin excludedProperties
            /\ propertyKey \notin Range(refsOf(VueClass))
            /\ ~InjectTruthy(Get(o["inject"].map, propertyKey)) }

dataProperties(VueClass, o) ==
    LET fields == instanceProperties(VueClass)
    IN  { propertyKey \in DOMAIN fields :
            /\ fields[propertyKey].kind # "accessor"
            /\ fields[propertyKey].kind # "function"
            /\ propertyKey \notin excludedProperties
            /\ ~PropTruthy(Get(o["props"], propertyKey))
            /\ propertyKey \notin Range(refsOf(VueClass))
            /\ ~InjectTruthy(Get(o["inject"].map, propertyKey)) }

\* data = _.pick(instance, dataProperties): the values of the instance, an
\* object among them being the object the instance holds
DataSection(VueClass, o) ==
    LET instance == NewInstance(VueClass, objects).instance
        data     == [k \in dataProperties(VueClass, o) |-> instance[k]]
    IN  Put(o, "data",
            [kind |-> "dataFactory", data |-> data, VueClass |-> VueClass,
             optionsData |-> Get(o, "data")])

\* what a call of the assembled data function returns; the data option it
\* calls is a function written by the caller or, in an options object that
\* was compiled before, the data function assembled then
RECURSIVE DataOf(_)
DataOf(dataFactory) ==
    Spread(Spread(dataFactory.data,
                  [k \in {"constructor"} |->
                      [kind |-> "class", value |-> dataFactory.VueClass]]),
           IF ~IsDefined(dataFactory.optionsData) THEN EmptyMap
           ELSE IF dataFactory.optionsData[1].kind = "dataFactory"
           THEN DataOf(dataFactory.optionsData[1])
           ELSE dataFactory.optionsData[1].returns)

\* the addresses a value refers to, and the objects reached from a set of
\* addresses
Refs(v) == IF v.kind = "ref" THEN { v.value } ELSE {}

RECURSIVE Reachable(_, _)
Reachable(store, from) ==
    LET next == from \cup UNION { UNION { Refs(store[a][k]) : k \in DOMAIN store[a] } :
                                   a \in from }
    IN  IF next = from THEN from ELSE Reachable(store, next)

\* { ...data }: the values as they are, an object shared with the original
cloneShallow(store, data) == [objects |-> store, data |-> data]

\* _.cloneDeep(data): a new object for every object reached from data
cloneDeep(store, data) ==
    LET reached    == Reachable(store, UNION { Refs(data[k]) : k \in DOMAIN data })
        place(a)   == Cardinality({ x \in reached : x <= a })
        copy(v)    == IF v.kind = "ref" THEN At(Len(store) + place(v.value)) ELSE v
        copies     == [n \in 1..Cardinality(reached) |->
                         LET a == CHOOSE x \in reached : place(x) = n
                         IN  [k \in DOMAIN store[a] |-> copy(store[a][k])]]
    IN  [objects |-> store \o copies, data |-> [k \in DOMAIN data |-> copy(data[k])]]

\* options.data(vm): the store after the call and the entries of the object
\* it returns
RECURSIVE CallData(_, _)
CallData(dataFactory, store) ==
    LET cloned == cloneDeep(store, dataFactory.data)
        own    == Spread(cloned.data,
                         [k \in {"constructor"} |->
                             [kind |-> "class", value |-> dataFactory.VueClass]])
        given  == IF ~IsDefined(dataFactory.optionsData)
                  THEN [objects |-> cloned.objects, result |-> EmptyMap]
                  ELSE IF dataFactory.optionsData[1].kind = "dataFactory"
                  THEN CallData(dataFactory.optionsData[1], cloned.objects)
                  ELSE [objects |-> cloned.objects,
                        result |-> dataFactory.optionsData[1].returns]
    IN  [objects |-> given.objects, result |-> Spread(own, given.result)]

\* a value with the objects it refers to in its place, to a depth
RECURSIVE ReadOut(_, _, _)
ReadOut(store, v, depth) ==
    IF v.kind # "ref" THEN v
    ELSE IF depth = 0 THEN EmptyMap
    ELSE [k \in DOMAIN store[v.value] |-> ReadOut(store, store[v.value][k], depth - 1)]

\* the value an entry is overwritten with, and the entries that hold it
Written == [kind |-> "value", value |-> 0]

Overwritten(store) ==
    { p \in UNION { { << a, k >> : k \in DOMAIN store[a] } : a \in 1..Len(store) } :
        /\ store[p[1]][p[2]].kind = "value"
        /\ store[p[1]][p[2]].value = 0 }

\* the framework creates a component: it calls the data function of the
\* options object a Component call has returned
DataFunction(id) ==
    /\ id \in 1..Len(options)
    /\ \E i \in 1..Len(calls) : calls[i].options = id /\ ~calls[i].threw
    /\ Len(returned) < MaxDataCalls
    /\ LET called  == CallData(options[id]["data"], objects)
           address == Len(called.objects) + 1
           store   == Append(called.objects, called.result)
       IN  /\ objects' = store
           /\ returned' = Append(returned,
                 [options |-> id, object |-> address,
                  overwritten |-> Cardinality(Overwritten(objects)),
                  value |-> ReadOut(store, At(address), MaxNesting)])
    /\ UNCHANGED << klass, meta, heap, options, declared, calls >>

\* the component assigns to an entry of its data, or of an object in it
Mutate(address, key) ==
    /\ address \in Reachable(objects, { returned[n].object : n \in 1..Len(returned) })
    /\ key \in DOMAIN objects[address]
    /\ objects[address][key].kind \in {"value", "ref"}
    /\ << address, key >> \notin Overwritten(objects)
    /\ Cardinality(Overwritten(objects)) < MaxMutations
    /\ objects' = [objects EXCEPT ![address][key] = Written]
    /\ UNCHANGED << klass, meta, heap, options, declared, calls, returned >>

NameSection(VueClass, o) ==
    LET className == klass[VueClass].name
    IN  Put(o, "name", IF className # "" THEN Some(className)
                       ELSE IF "name" \in DOMAIN o THEN o["name"] ELSE undefined)


\* options.emits?.forEach(emits.add): forEach calls the detached add with an
\* undefined receiver, and Set.prototype.add then throws a TypeError; with no
\* element to visit nothing is called
ForEachAdd(emits, names) ==
    IF names = << >> THEN [threw |-> FALSE, emits |-> emits]
    ELSE [threw |-> TRUE, emits |-> emits]

EmitsStep(VueClass, o) ==
    LET emits == MetadataOr(metadataKeys.emits, VueClass, << >>)
    IN  IF "emits" \in DOMAIN o THEN ForEachAdd(emits, o["emits"])
        ELSE [threw |-> FALSE, emits |-> emits]

\* options.emits = Array.from(emits)
EmitsSection(VueClass, o) == Put(o, "emits", EmitsStep(VueClass, o).emits)

\* options.expose assigned whether or not there is anything to expose
ExposeAlways(VueClass, o) ==
    LET expose == getMetadata(metadataKeys.expose, VueClass)
    IN  Put(o, "expose",
            (IF IsDefined(expose) THEN expose[1] ELSE << >>)
            \o (IF "expose" \in DOMAIN o THEN o["expose"] ELSE << >>))

ExposeSection(VueClass, o) ==
    LET expose == getMetadata(metadataKeys.expose, VueClass)
    IN  IF "expose" \in DOMAIN o \/ IsDefined(expose)
        THEN Put(o, "expose",
                 (IF IsDefined(expose) THEN expose[1] ELSE << >>)
                 \o (IF "expose" \in DOMAIN o THEN o["expose"] ELSE << >>))
        ELSE o

\* the watcher of the decorator kept where the options object has one too
WatchMetadataWins(VueClass, o) ==
    Put(o, "watch",
        Spread(IF "watch" \in DOMAIN o THEN o["watch"] ELSE EmptyMap,
               MetadataOr(metadataKeys.watch, VueClass, EmptyMap)))

WatchSection(VueClass, o) ==
    Put(o, "watch",
        Spread(MetadataOr(metadataKeys.watch, VueClass, EmptyMap),
               IF "watch" \in DOMAIN o THEN o["watch"] ELSE EmptyMap))

MethodsSection(VueClass, o) ==
    LET proto == prototypeProperties(VueClass)
        own   == [k \in { m \in DOMAIN proto :
                            proto[m] = "method" /\ m \notin Range(hookNames) } |->
                    Fn(VueClass, k)]
    IN  Put(o, "methods",
            Spread(own, IF "methods" \in DOMAIN o THEN o["methods"] ELSE EmptyMap))

\* the same-named method added after the registered handlers
HookListPrototypeLast(methods, prototypeHook, optionsHook) ==
    LET withPrototype == IF IsDefined(prototypeHook)
                         THEN push(methods, prototypeHook[1]) ELSE methods
    IN  IF IsDefined(optionsHook)
        THEN unshift(withPrototype, optionsHook[1]) ELSE withPrototype

\* the options entry added before the same-named method is
HookListOptionsInside(methods, prototypeHook, optionsHook) ==
    LET withOptions == IF IsDefined(optionsHook)
                       THEN unshift(methods, optionsHook[1]) ELSE methods
    IN  IF IsDefined(prototypeHook)
        THEN unshift(withOptions, prototypeHook[1]) ELSE withOptions

\* one turn of hookNames.forEach: methods is the array of the hooks metadata
\* when it has one for hookName, else a new array
HookList(methods, prototypeHook, optionsHook) ==
    LET withPrototype == IF IsDefined(prototypeHook)
                         THEN unshift(methods, prototypeHook[1]) ELSE methods
    IN  IF IsDefined(optionsHook)
        THEN unshift(withPrototype, optionsHook[1]) ELSE withPrototype

RECURSIVE HooksSection(_, _, _, _)
HooksSection(VueClass, o, h, i) ==
    IF i > Len(hookNames) THEN [options |-> o, heap |-> h]
    ELSE LET hookName == hookNames[i]
             hooks    == MetadataOr(metadataKeys.hooks, VueClass, EmptyMap)
             fresh    == hookName \notin DOMAIN hooks
             addr     == IF fresh THEN Len(h) + 1 ELSE hooks[hookName]
             methods  == HookList(IF fresh THEN << >> ELSE h[addr],
                                  PrototypeLookup(VueClass, hookName),
                                  Get(o, hookName))
         IN  HooksSection(VueClass, Put(o, hookName, Arr(addr)),
                          IF fresh THEN Append(h, methods)
                                   ELSE [h EXCEPT ![addr] = methods],
                          i + 1)

SetupSection(VueClass, o) ==
    Put(o, "setup",
        IF "setup" \in DOMAIN o /\ IsDefined(o["setup"]) THEN o["setup"]
        ELSE PrototypeLookup(VueClass, "setup"))

MixinsSection(VueClass, o) ==
    LET classMixins == StaticLookup(VueClass, "mixins")
    IN  Put(o, "mixins",
            (IF IsDefined(classMixins) THEN classMixins[1].value ELSE << >>)
            \o (IF "mixins" \in DOMAIN o THEN o["mixins"] ELSE << >>))

\* every own static property copied as it is, a function with no receiver bound
StaticsUnbound(VueClass, o) ==
    LET statics == staticProperties(VueClass)
        copied  == DOMAIN statics \ excludedClassProperties
    IN  [k \in DOMAIN o \cup copied |->
            IF k \in copied
            THEN IF statics[k].kind = "function"
                 THEN [kind |-> "function", fn |-> k, of |-> VueClass,
                       thisArg |-> "none"]
                 ELSE statics[k].value
            ELSE o[k]]

\* Object.defineProperty(options, propertyKey, desc) for every own static
\* property outside excludedClassProperties, a function bound to VueClass
StaticsSection(VueClass, o) ==
    LET statics == staticProperties(VueClass)
        copied  == DOMAIN statics \ excludedClassProperties
    IN  [k \in DOMAIN o \cup copied |->
            IF k \in copied
            THEN IF statics[k].kind = "function"
                 THEN [kind |-> "bound", fn |-> k, of |-> VueClass,
                       thisArg |-> VueClass]
                 ELSE statics[k].value
            ELSE o[k]]


-----------------------------------------------------------------------------
(* Reading an options object out of the stores                             *)

\* a function, or the content of the array at an address, arrays within
\* arrays read to depth MaxNesting
RECURSIVE Resolve(_, _, _)
Resolve(v, h, depth) ==
    IF ~IsArr(v)
    THEN [fn |-> v.fn, of |-> v.of, isArray |-> FALSE, items |-> << >>]
    ELSE [fn |-> "", of |-> "", isArray |-> TRUE,
          items |-> IF depth = 0 THEN << >>
                    ELSE [i \in 1..Len(h[v.arr]) |-> Resolve(h[v.arr][i], h, depth - 1)]]

Resolved(o, h) ==
    [k \in DOMAIN o |->
        IF k \in Range(hookNames) THEN Resolve(o[k], h, MaxNesting) ELSE o[k]]

-----------------------------------------------------------------------------
(* The function Component returns                                          *)

\* the options object after the steps before the component name
BeforeName(VueClass, o) ==
    LET provided == ProvideSection(VueClass, o)
        injected == InjectSection(VueClass, provided)
        props    == PropsSection(VueClass, injected)
        computed == ComputedSection(VueClass, props)
    IN  DataSection(VueClass, computed)

\* the options object after the steps up to the component name
BeforeEmits(VueClass, o) == NameSection(VueClass, BeforeName(VueClass, o))

\* The static passthrough defines every own static property of the class on
\* the options object with the attributes it has on the class, and the name
\* of a class is not writable: once a call has returned, the name of the
\* options object it was given is read-only, and `options.name = ...`, in
\* the strict code of a module, throws a TypeError.
NameReadOnly(id) ==
    \E i \in 1..Len(calls) : calls[i].options = id /\ ~calls[i].threw

\* the options object and the heap after the steps that follow
AfterEmits(VueClass, o, h) ==
    LET emits   == EmitsSection(VueClass, o)
        expose  == ExposeSection(VueClass, emits)
        watch   == WatchSection(VueClass, expose)
        methods == MethodsSection(VueClass, watch)
        hooked  == HooksSection(VueClass, methods, h, 1)
        setup   == SetupSection(VueClass, hooked.options)
        mixins  == MixinsSection(VueClass, setup)
    IN  [options |-> StaticsSection(VueClass, mixins), heap |-> hooked.heap]

\* options[id] is the object the decorator closes over; it is updated in
\* place and returned.  A throw leaves it as the steps before had made it.
ComponentDecorator(id, VueClass) ==
    /\ id \in 1..Len(options)
    /\ Len(calls) < MaxCalls
    /\ LET given  == options[id]
           frozen == NameReadOnly(id)
           before == BeforeEmits(VueClass, given)
           threw  == frozen \/ EmitsStep(VueClass, before).threw
           after  == AfterEmits(VueClass, before, heap)
       IN  /\ options' = [options EXCEPT ![id] =
                             IF frozen THEN BeforeName(VueClass, given)
                             ELSE IF threw THEN before
                             ELSE after.options]
           /\ heap' = IF threw THEN heap ELSE after.heap
           /\ calls' = Append(calls,
                 [VueClass |-> VueClass, options |-> id,
                  given |-> Resolved(given, heap),
                  threw |-> threw,
                  result |-> IF threw THEN undefined
                             ELSE Some(Resolved(after.options, after.heap))])
    /\ objects' = NewInstance(VueClass, objects).objects
    /\ UNCHANGED << klass, meta, declared, returned >>

\* @Component(options) class VueClass: an options object is written for one
\* class and handed to it before the next one is written
Unused(id) == \A i \in 1..Len(calls) : calls[i].options # id
AllUsed    == \A id \in 1..Len(options) : ~Unused(id)


-----------------------------------------------------------------------------
(* Class declarations                                                      *)

Method(names)  == [k \in names |-> "method"]
Value(v)       == [kind |-> "value", value |-> v]

\* the own static properties every class has
BuiltinStatics(name) ==
    [k \in {"length", "name", "prototype"} |->
        IF k = "length" THEN Value(0)
        ELSE IF k = "name" THEN Value(Some(name))
        ELSE Value("prototype")]

\* class <name> extends Vue { <fields>; <members>() {} }
ClassDecl(name, proto, fields) ==
    [name |-> name, parent |-> "none",
     proto |-> Spread(Method({"constructor"}), proto),
     fields |-> fields,
     statics |-> BuiltinStatics(name),
     designTypes |-> EmptyMap]

InitStores ==
    /\ meta = [c \in Classes |-> EmptyMap]
    /\ heap = << >>
    /\ options = << >>
    /\ objects = << >>
    /\ declared = << >>
    /\ calls = << >>
    /\ returned = << >>

Decorate == \E id \in 1..Len(options) : Unused(id) /\ ComponentDecorator(id, "MyComponent")

-----------------------------------------------------------------------------
(* Lifecycle hooks                                                         *)

\* the class of the README's @Hook example, with and without mounted()
HookClasses ==
    { ClassDecl("MyComponent", Method({"foo", "foo2"} \cup own), EmptyMap) :
        own \in { {}, {"mounted"} } }

OptionsFn(name) == Fn("options", name)

\* Component(), Component({ mounted : f }), Component({ mounted : [ f, g ] })
HookWritten ==
    { EmptyMap,
      [k \in {"mounted"} |-> [array |-> FALSE, items |-> << OptionsFn("f") >>]],
      [k \in {"mounted"} |->
          [array |-> TRUE, items |-> << OptionsFn("f"), OptionsFn("g") >>]] }

InitHooks == InitStores /\ klass \in [Classes -> HookClasses]

DeclareHook ==
    \E propertyKey \in DOMAIN klass["MyComponent"].proto \ {"constructor"},
       name \in { "mounted", "beforeMount" } :
        Hook("MyComponent", propertyKey, name)

WriteHookOptions == \E written \in HookWritten : AllUsed /\ Component(written)

NextHooks == DeclareHook \/ WriteHookOptions \/ Decorate

SpecHooks == InitHooks /\ [][NextHooks]_vars


-----------------------------------------------------------------------------
(* Emitted events                                                          *)

EmitsClasses ==
    { ClassDecl("MyComponent", Method({"foo", "bar"}),
                [k \in {"isCool"} |-> Value(0)]) }

\* Component(), Component({ emits : [] }), Component({ emits : [ ... ] })
EmitsWritten ==
    { EmptyMap } \cup
    { [k \in {"emits"} |-> names] : names \in { << >>, << "bob" >>, << "change", "bob" >> } }

InitEmits == InitStores /\ klass \in [Classes -> EmitsClasses]

DeclareEmits ==
    \E propertyKey \in {"foo", "bar"}, eventNames \in { << "bob", "marley" >>, << "jack", "bob" >>, << "bob" >> } :
        Emits("MyComponent", propertyKey, eventNames)

WriteEmitsOptions == \E written \in EmitsWritten : AllUsed /\ Component(written)

NextEmits == DeclareEmits \/ WriteEmitsOptions \/ Decorate

SpecEmits == InitEmits /\ [][NextEmits]_vars

-----------------------------------------------------------------------------
(* Exposed members                                                         *)

ExposeClasses ==
    { ClassDecl("MyComponent", Method({"foo", "bar", "hiddenFunction"}), EmptyMap) }

ExposeWritten ==
    { EmptyMap } \cup
    { [k \in {"expose"} |-> names] : names \in { << >>, << "baz" >>, << "foo", "baz" >> } }

InitExpose == InitStores /\ klass \in [Classes -> ExposeClasses]

DeclareExpose ==
    \E propertyKey \in {"foo", "bar", "hiddenFunction"} :
        Expose("MyComponent", propertyKey)

WriteExposeOptions == \E written \in ExposeWritten : AllUsed /\ Component(written)

NextExpose == DeclareExpose \/ WriteExposeOptions \/ Decorate

SpecExpose == InitExpose /\ [][NextExpose]_vars

-----------------------------------------------------------------------------
(* Props and data                                                          *)

Fields(names) == [k \in names |-> Value(1)]

\* foo and bar are declared with a type, lorem without
PropsClasses ==
    { [ClassDecl("MyComponent", Method({"baz"}), Fields(present))
          EXCEPT !.designTypes = [k \in {"foo", "bar"} |-> "Number"]] :
        present \in { {"foo", "bar", "lorem"}, {"lorem"} } }

\* @Prop(), @Prop(String)
PropOptions ==
    { [kind |-> "object", type |-> undefined],
      [kind |-> "function", type |-> Some("String")] }

\* { props : { foo : null } }, { props : { bar : { type : String } } },
\* { data() { return { foo : 2 } } }
PropsWritten ==
    { EmptyMap,
      [k \in {"props"} |-> [p \in {"foo"} |-> [kind |-> "null"]]],
      [k \in {"props"} |->
          [p \in {"bar"} |-> [kind |-> "object", type |-> Some("String")]]],
      [k \in {"data"} |->
          [kind |-> "function", returns |-> [p \in {"foo"} |-> Value(2)]]] }

InitProps == InitStores /\ klass \in [Classes -> PropsClasses]

DeclareProp ==
    \E propertyKey \in {"foo", "lorem"}, propOptions \in PropOptions :
        Prop("MyComponent", propertyKey, propOptions)

WritePropsOptions == \E written \in PropsWritten : AllUsed /\ Component(written)

NextProps == DeclareProp \/ WritePropsOptions \/ Decorate

SpecProps == InitProps /\ [][NextProps]_vars

-----------------------------------------------------------------------------
(* Inject                                                                  *)

InjectClasses ==
    { ClassDecl("MyComponent", Method({"baz"}), Fields({"a", "b", "c"})) }

\* the inject option as a list of names, as a map to empty configurations, as
\* a string, as a number, and left out
InjectWritten ==
    { EmptyMap }
    \cup { [k \in {"inject"} |-> [shape |-> "array", items |-> names]] :
             names \in { << "a", "b" >>, << "b", "a", "b" >> } }
    \cup { [k \in {"inject"} |->
              [shape |-> "object", map |-> [n \in names |-> EmptyMap]]] :
             names \in { {"a", "b"} } }
    \cup { [k \in {"inject"} |-> [shape |-> "string", items |-> << "a", "b" >>]],
           [k \in {"inject"} |-> [shape |-> "number", value |-> 7]] }

InitInject == InitStores /\ klass \in [Classes -> InjectClasses]

DeclareInject ==
    \E propertyKey \in {"a", "c"}, alias \in { undefined, Some("food") } :
        Inject("MyComponent", propertyKey, alias, undefined)

WriteInjectOptions == \E written \in InjectWritten : AllUsed /\ Component(written)

NextInject == DeclareInject \/ WriteInjectOptions \/ Decorate

SpecInject == InitInject /\ [][NextInject]_vars

-----------------------------------------------------------------------------
(* What the histories say, independently of the stores                     *)

FnRead(of, name) == [fn |-> name, of |-> of, isArray |-> FALSE, items |-> << >>]

\* the methods decorated with @Hook(name) in VueClass, in application order
RECURSIVE HookDeclared(_, _, _)
HookDeclared(VueClass, name, n) ==
    IF n = 0 THEN << >>
    ELSE LET d == declared[n]
         IN  IF d.decorator = "Hook" /\ d.target = VueClass /\ d.args[1] = name
             THEN Append(HookDeclared(VueClass, name, n - 1),
                         FnRead(VueClass, d.propertyKey))
             ELSE HookDeclared(VueClass, name, n - 1)

Handlers(VueClass, name) == HookDeclared(VueClass, name, Len(declared))

\* the ordinary method of the class named after the hook, if it has one
SameNamed(VueClass, name) ==
    IF name \in DOMAIN klass[VueClass].proto
    THEN << FnRead(VueClass, name) >> ELSE << >>

\* the entry written in the options object under the hook name, as one value
GivenEntry(call, name) ==
    IF name \in DOMAIN call.given THEN << call.given[name] >> ELSE << >>

\* the handlers written in the options object under the hook name
GivenHandlers(call, name) ==
    IF name \notin DOMAIN call.given THEN << >>
    ELSE IF call.given[name].isArray THEN call.given[name].items
    ELSE << call.given[name] >>

IsPrefix(p, s) == Len(p) <= Len(s) /\ SubSeq(s, 1, Len(p)) = p
IsSuffix(p, s) == Len(p) <= Len(s) /\ SubSeq(s, Len(s) - Len(p) + 1, Len(s)) = p

Returned   == { i \in 1..Len(calls) : ~calls[i].threw }
Output(i)  == calls[i].result[1]
HookNameSet == Range(hookNames)

\* the addresses of the arrays an options object holds under the hook names
Arrays(o) == { o[k].arr : k \in { n \in HookNameSet \cap DOMAIN o : IsArr(o[n]) } }

-----------------------------------------------------------------------------
(* C1: compiling the same class twice, each time with an equal but         *)
(* separate options object, gives two structurally equal outputs; no array *)
(* is shared between the two outputs, and the first output is as it was    *)
(* returned after the second call.                                         *)
C1_Idempotent ==
    \A i \in Returned, j \in Returned :
        ( /\ i < j
          /\ calls[i].VueClass = calls[j].VueClass
          /\ calls[i].options # calls[j].options
          /\ calls[i].given = calls[j].given )
        => /\ Output(i) = Output(j)
           /\ Resolved(options[calls[i].options], heap) = Output(i)
           /\ Arrays(options[calls[i].options])
                \cap Arrays(options[calls[j].options]) = {}

(* C2: every hook list is the @Hook handlers in application order, then    *)
(* what the options object has under that name, then the same-named        *)
(* method.                                                                 *)
C2_HandlersOptionsMethod ==
    \A i \in Returned, name \in HookNameSet :
        Output(i)[name].items =
            Handlers(calls[i].VueClass, name) \o GivenEntry(calls[i], name)
                \o SameNamed(calls[i].VueClass, name)

(* C2, amended: every hook list starts with the entry of the options       *)
(* object under that name (if there is one), followed by the same-named    *)
(* method (if the class has one), and ends with the @Hook handlers in      *)
(* application order, directly preceded by the same-named method.          *)
C2_OptionsMethodHandlers ==
    \A i \in Returned, name \in HookNameSet :
        LET c == calls[i].VueClass
        IN  /\ IsPrefix(GivenEntry(calls[i], name) \o SameNamed(c, name),
                        Output(i)[name].items)
            /\ IsSuffix(SameNamed(c, name) \o Handlers(c, name),
                        Output(i)[name].items)

C2_Witness ==
    \E i \in Returned :
        /\ Len(Handlers(calls[i].VueClass, "mounted")) = 2
        /\ Handlers(calls[i].VueClass, "mounted")[1]
             # Handlers(calls[i].VueClass, "mounted")[2]
        /\ "mounted" \in DOMAIN calls[i].given
        /\ SameNamed(calls[i].VueClass, "mounted") # << >>
        /\ Len(Output(i)["mounted"].items) = 4

(* C3: with N @Hook handlers and M handlers in the options object for a    *)
(* hook name, the hook list has N + M entries, one more when the class has *)
(* a same-named method that is not one of the @Hook handlers, and every    *)
(* entry is a function.                                                    *)
C3_HookCount ==
    \A i \in Returned, name \in HookNameSet :
        LET c     == calls[i].VueClass
            own   == SameNamed(c, name)
            extra == IF own # << >> /\ own[1] \notin Range(Handlers(c, name))
                     THEN 1 ELSE 0
            list  == Output(i)[name].items
        IN  /\ Len(list) = Len(Handlers(c, name))
                             + Len(GivenHandlers(calls[i], name)) + extra
            /\ \A k \in 1..Len(list) : ~list[k].isArray

\* the class has a method named after the hook and other methods decorated
\* with @Hook for that name
MethodAndHandlers(VueClass, name) ==
    /\ SameNamed(VueClass, name) # << >>
    /\ Handlers(VueClass, name) # << >>
    /\ SameNamed(VueClass, name)[1] \notin Range(Handlers(VueClass, name))

(* C4: when the class has a method named after the hook and other methods  *)
(* decorated with @Hook for that name, the hook list is the same-named     *)
(* method followed by the decorated methods in application order.          *)
C4_MethodThenHandlers ==
    \A i \in Returned, name \in HookNameSet :
        LET c == calls[i].VueClass
        IN  MethodAndHandlers(c, name)
            => Output(i)[name].items = SameNamed(c, name) \o Handlers(c, name)

(* C4, amended: in that case the decorated methods are the last entries of *)
(* the hook list, in application order, the same-named method is the entry *)
(* just before them, and it is the first entry unless the options object   *)
(* has an entry under that name.                                           *)
C4_MethodBeforeHandlers ==
    \A i \in Returned, name \in HookNameSet :
        LET c    == calls[i].VueClass
            list == Output(i)[name].items
            n    == Len(Handlers(c, name))
        IN  MethodAndHandlers(c, name)
            => /\ Len(list) > n
               /\ SubSeq(list, Len(list) - n + 1, Len(list)) = Handlers(c, name)
               /\ list[Len(list) - n] = SameNamed(c, name)[1]
               /\ (name \notin DOMAIN calls[i].given
                      => list[1] = SameNamed(c, name)[1])

C4_Witness ==
    \E i \in Returned :
        /\ "mounted" \notin DOMAIN calls[i].given
        /\ Output(i)["mounted"].items =
             << FnRead("MyComponent", "mounted"), FnRead("MyComponent", "foo"),
                FnRead("MyComponent", "foo2") >>


\* the event names of the @Emits decorators of VueClass, in application order
RECURSIVE EmitsDeclared(_, _)
EmitsDeclared(VueClass, n) ==
    IF n = 0 THEN << >>
    ELSE LET d == declared[n]
         IN  EmitsDeclared(VueClass, n - 1)
               \o (IF d.decorator = "Emits" /\ d.target = VueClass
                   THEN d.args ELSE << >>)

\* the members decorated with @Expose in VueClass, in application order
RECURSIVE ExposeDeclared(_, _)
ExposeDeclared(VueClass, n) ==
    IF n = 0 THEN << >>
    ELSE LET d == declared[n]
         IN  ExposeDeclared(VueClass, n - 1)
               \o (IF d.decorator = "Expose" /\ d.target = VueClass
                   THEN << d.propertyKey >> ELSE << >>)

\* each element at the place of its first occurrence
RECURSIVE FirstOccurrences(_)
FirstOccurrences(s) ==
    IF s = << >> THEN << >>
    ELSE LET n    == Len(s)
             init == FirstOccurrences(SubSeq(s, 1, n - 1))
         IN  IF s[n] \in Range(init) THEN init ELSE Append(init, s[n])

NoDuplicates(s) == \A i, j \in 1..Len(s) : s[i] = s[j] => i = j

(* C5: no key of the assembled props section is a key of the object the    *)
(* assembled data function returns.                                        *)
C5_PropsNotInData ==
    \A i \in Returned :
        DOMAIN Output(i)["props"] \cap DOMAIN DataOf(Output(i)["data"]) = {}

(* C6: without an emits option, the assembled emits section holds each     *)
(* event name of the @Emits decorators once, in the order of the first     *)
(* declaration.                                                            *)
C6_EmitsFirstDeclaration ==
    \A i \in Returned :
        "emits" \notin DOMAIN calls[i].given
        => LET names == EmitsDeclared(calls[i].VueClass, Len(declared))
           IN  /\ Output(i)["emits"] = FirstOccurrences(names)
               /\ NoDuplicates(Output(i)["emits"])
               /\ Range(Output(i)["emits"]) = Range(names)

C6_Witness ==
    \E i \in Returned :
        /\ "emits" \notin DOMAIN calls[i].given
        /\ EmitsDeclared(calls[i].VueClass, Len(declared))
             = << "bob", "marley", "jack", "bob" >>
        /\ Output(i)["emits"] = << "bob", "marley", "jack" >>

(* C7: with an array of event names as the emits option, the call returns  *)
(* and the assembled emits section is the names of the @Emits decorators   *)
(* followed by the names of the option that were not declared, each once.  *)
C7_EmitsUnion ==
    \A i \in 1..Len(calls) :
        "emits" \in DOMAIN calls[i].given
        => /\ ~calls[i].threw
           /\ Output(i)["emits"] =
                FirstOccurrences(EmitsDeclared(calls[i].VueClass, Len(declared))
                                 \o calls[i].given["emits"])

(* C8: the assembled expose section is the @Expose members followed by the *)
(* expose option whenever one of the two is not empty, and the assembled   *)
(* object has no expose key when the class has no @Expose member and the   *)
(* options object has no expose entry.                                     *)
C8_Expose ==
    \A i \in Returned :
        LET members == ExposeDeclared(calls[i].VueClass, Len(declared))
            written == "expose" \in DOMAIN calls[i].given
            listed  == IF written THEN calls[i].given["expose"] ELSE << >>
        IN  /\ (members # << >> \/ listed # << >>)
               => /\ "expose" \in DOMAIN Output(i)
                  /\ Output(i)["expose"] = members \o listed
            /\ (members = << >> /\ ~written) => "expose" \notin DOMAIN Output(i)

C8_Witness ==
    /\ \E i \in Returned : "expose" \notin DOMAIN Output(i)
    /\ \E i \in Returned :
          /\ "expose" \in DOMAIN calls[i].given
          /\ "expose" \in DOMAIN Output(i)
          /\ Output(i)["expose"] = << "baz" >>

\* the map that sends each name of the list to an empty configuration
EmptyConfigurations(names) ==
    [shape |-> "object", map |-> [n \in Range(names) |-> EmptyMap]]

ListAndMap(i, j) ==
    /\ calls[i].VueClass = calls[j].VueClass
    /\ "inject" \in DOMAIN calls[i].given
    /\ calls[i].given["inject"].shape = "array"
    /\ calls[j].given =
         Put(calls[i].given, "inject",
             EmptyConfigurations(calls[i].given["inject"].items))

(* C9: a call with the inject option written as a list of names and a call *)
(* with it written as the map of those names to empty configurations give  *)
(* the same assembled object.                                              *)
C9_InjectListAsMap ==
    \A i \in Returned, j \in Returned :
        ListAndMap(i, j) => Output(i) = Output(j)

C9_Witness ==
    \E i \in Returned, j \in Returned :
        /\ ListAndMap(i, j)
        /\ calls[i].given["inject"].items = << "b", "a", "b" >>
        /\ DOMAIN Output(i)["inject"].map = {"a", "b", "c"}
        /\ DOMAIN DataOf(Output(j)["data"]) = {"constructor"}

(* C10: with an inject option that is neither an array nor an object the   *)
(* call returns and the assembled inject section is the @Inject map.       *)
C10_InjectUnexpectedShape ==
    \A i \in 1..Len(calls) :
        ( /\ "inject" \in DOMAIN calls[i].given
          /\ calls[i].given["inject"].shape \in {"string", "number"} )
        => /\ ~calls[i].threw
           /\ Output(i)["inject"].map =
                MetadataOr(metadataKeys.inject, calls[i].VueClass, EmptyMap)


-----------------------------------------------------------------------------
(* Static members and the component name                                   *)

\* static create() {}, static version = 3, static mixins = [ Base ]
StaticMember(k) ==
    IF k = "create" THEN [kind |-> "function", value |-> k]
    ELSE IF k = "version" THEN Value(3)
    ELSE Value(<< "Base" >>)

StaticsClasses ==
    { [ClassDecl("MyComponent", Method({"foo"}), EmptyMap)
          EXCEPT !.statics = Spread(BuiltinStatics("MyComponent"),
                                    [k \in names |-> StaticMember(k)])] :
        names \in SUBSET {"create", "version", "mixins"} }

\* Component(), Component({ name : 'Custom' }), Component({ mixins : [ Other ] })
StaticsWritten ==
    { EmptyMap,
      [k \in {"name"} |-> Some("Custom")],
      [k \in {"mixins"} |-> << "Other" >>] }

InitStatics == InitStores /\ klass \in [Classes -> StaticsClasses]

WriteStaticsOptions == \E written \in StaticsWritten : AllUsed /\ Component(written)

NextStatics == WriteStaticsOptions \/ Decorate

SpecStatics == InitStatics /\ [][NextStatics]_vars

\* VueClass.member(): the method runs with the class as its receiver
CallOnClass(VueClass, member) ==
    [fn |-> member, of |-> VueClass, receiver |-> VueClass]

\* o.member(): a bound function runs with the receiver it was bound to, any
\* other function with the object it is called on
CallOnOptions(o, member) ==
    [fn |-> o[member].fn, of |-> o[member].of,
     receiver |-> IF o[member].kind = "bound" THEN o[member].thisArg
                  ELSE "options"]

(* C11: every own static member of the class outside the reserved names is *)
(* a key of the assembled object, a value under it being the static's      *)
(* value and a function under it giving, when called through the assembled *)
(* object, what the static method gives when called on the class; no       *)
(* reserved name is copied.                                                *)
C11_StaticPassthrough ==
    \A i \in Returned :
        LET c       == calls[i].VueClass
            statics == klass[c].statics
        IN  /\ \A k \in DOMAIN statics \ excludedClassProperties :
                  /\ k \in DOMAIN Output(i)
                  /\ IF statics[k].kind = "function"
                     THEN CallOnOptions(Output(i), k) = CallOnClass(c, k)
                     ELSE Output(i)[k] = statics[k].value
            /\ \A k \in excludedClassProperties :
                  k \in DOMAIN Output(i) => k \in DOMAIN calls[i].given

C11_Witness ==
    \E i \in Returned :
        /\ {"create", "version", "length", "prototype"}
              \subseteq DOMAIN klass[calls[i].VueClass].statics
        /\ Output(i)["create"].kind = "bound"
        /\ "version" \in DOMAIN Output(i)
        /\ "length" \notin DOMAIN Output(i)


\* what the metadata of every class holds, the hook lists read out of the
\* arrays that hold them
MetadataContents ==
    [c \in DOMAIN meta |->
        [k \in DOMAIN meta[c] |->
            IF k = metadataKeys.hooks
            THEN [n \in DOMAIN meta[c][k] |->
                    Resolve(Arr(meta[c][k][n]), heap, MaxNesting)]
            ELSE meta[c][k]]]

(* C12: a call of the function Component returns leaves every metadata     *)
(* channel of every class with the contents it had before the call.        *)
C12_MetadataReadOnly ==
    [][calls' # calls => MetadataContents' = MetadataContents]_vars


-----------------------------------------------------------------------------
(* Methods                                                                 *)

\* a class with the method foo and the accessor total, with and without a
\* method named after a lifecycle hook and one named after a component option
MethodsClasses ==
    { ClassDecl("MyComponent",
                Spread(Method({"foo"} \cup own), [k \in {"total"} |-> "accessor"]),
                EmptyMap) :
        own \in SUBSET {"mounted", "watch"} }

\* Component(), Component({ methods : { foo : f } }),
\* Component({ methods : { bar : g } })
MethodsWritten ==
    { EmptyMap,
      [k \in {"methods"} |-> [m \in {"foo"} |-> OptionsFn("f")]],
      [k \in {"methods"} |-> [m \in {"bar"} |-> OptionsFn("g")]] }

InitMethods == InitStores /\ klass \in [Classes -> MethodsClasses]

DeclareMethodHook ==
    \E name \in {"mounted", "created"} : Hook("MyComponent", "foo", name)

WriteMethodsOptions == \E written \in MethodsWritten : AllUsed /\ Component(written)

NextMethods == DeclareMethodHook \/ WriteMethodsOptions \/ Decorate

SpecMethods == InitMethods /\ [][NextMethods]_vars

\* the own members of the prototype that are functions
FunctionMembers(VueClass) ==
    { m \in DOMAIN klass[VueClass].proto : klass[VueClass].proto[m] = "method" }

\* the methods entries that come from the class: those the options object
\* was not written with
GivenMethods(i) ==
    IF "methods" \in DOMAIN calls[i].given
    THEN DOMAIN calls[i].given["methods"] ELSE {}

ClassMethods(i) ==
    [k \in DOMAIN Output(i)["methods"] \ GivenMethods(i) |->
        Output(i)["methods"][k]]

\* every @Hook handler with a name that is not a hook name is a key of the
\* methods section and is in the list of the hook it was registered for
HandlersAreMethods(i) ==
    \A n \in 1..Len(declared) :
        LET d == declared[n]
        IN  ( /\ d.decorator = "Hook"
              /\ d.target = calls[i].VueClass
              /\ d.propertyKey \notin HookNameSet )
            => /\ d.propertyKey \in DOMAIN Output(i)["methods"]
               /\ FnRead(d.target, d.propertyKey)
                    \in Range(Output(i)[d.args[1]].items)

(* C13: the methods the class contributes are exactly the functions of the *)
(* prototype whose names are neither hook names nor framework-reserved     *)
(* names; a @Hook handler with a non-hook name is a method and is in the   *)
(* hook list, and a method named after a hook is not a method entry.       *)
C13_MethodsExcludeReserved ==
    \A i \in Returned :
        LET c == calls[i].VueClass
        IN  /\ ClassMethods(i) =
                  [k \in FunctionMembers(c)
                          \ (HookNameSet \cup excludedProperties
                               \cup GivenMethods(i)) |->
                      Fn(c, k)]
            /\ HandlersAreMethods(i)
            /\ DOMAIN ClassMethods(i) \cap HookNameSet = {}


-----------------------------------------------------------------------------
(* One decorator for two classes                                           *)

\* const decorate = Component(options);
\* @decorate class First { a = 1; foo() {} }
\* @decorate class Second { b = 1; bar() {} }
ReuseClasses ==
    [c \in {"First", "Second"} |->
        IF c = "First"
        THEN ClassDecl("First", Method({"foo"}), Fields({"a"}))
        ELSE ClassDecl("Second", Method({"bar"}), Fields({"b"}))]

\* Component(), Component({ props : { a : { type : String } } }),
\* Component({ methods : { baz : f } })
ReuseWritten ==
    { EmptyMap,
      [k \in {"props"} |->
          [p \in {"a"} |-> [kind |-> "object", type |-> Some("String")]]],
      [k \in {"methods"} |-> [m \in {"baz"} |-> OptionsFn("f")]] }

InitReuse ==
    /\ klass = ReuseClasses
    /\ meta = [c \in DOMAIN klass |-> EmptyMap]
    /\ heap = << >>
    /\ options = << >>
    /\ objects = << >>
    /\ declared = << >>
    /\ calls = << >>
    /\ returned = << >>

DeclareReuse ==
    \E target \in DOMAIN klass, propOptions \in PropOptions :
        Prop(target, CHOOSE f \in DOMAIN klass[target].fields : TRUE, propOptions)

\* the one options object the decorator is made with
WriteReuseOptions ==
    \E written \in ReuseWritten : options = << >> /\ Component(written)

\* the decorator applied to a class it has not been applied to
DecorateReuse ==
    \E VueClass \in DOMAIN klass :
        /\ \A i \in 1..Len(calls) : calls[i].VueClass # VueClass
        /\ ComponentDecorator(1, VueClass)

NextReuse == DeclareReuse \/ WriteReuseOptions \/ DecorateReuse

SpecReuse == InitReuse /\ [][NextReuse]_vars

\* the object a call returned: the options object it was given
ReturnedObject(i) == calls[i].options

(* C14: of two calls of one decorator on two classes the second returns    *)
(* too, it returns an object that is not the one the first returned, and   *)
(* no method of the first class is in the methods of the second output.    *)
C14_FreshOutput ==
    \A i \in Returned, j \in 1..Len(calls) :
        ( /\ i < j
          /\ calls[i].options = calls[j].options
          /\ calls[i].VueClass # calls[j].VueClass )
        => /\ ~calls[j].threw
           /\ ReturnedObject(i) # ReturnedObject(j)
           /\ \A k \in DOMAIN Output(j)["methods"] :
                 Output(j)["methods"][k].of # calls[i].VueClass


-----------------------------------------------------------------------------
(* Computed members and template refs                                      *)

\* class MyComponent { input; get total() {} foo() {} }
ComputedClasses ==
    { ClassDecl("MyComponent",
                Spread(Method({"foo"}), [k \in {"total"} |-> "accessor"]),
                Fields({"input"})) }

\* Component(), Component({ computed : { <name> : { get() {} } } })
ComputedWritten ==
    { EmptyMap } \cup
    { [k \in {"computed"} |-> [m \in {name} |->
                              [kind |-> "options", of |-> "options", name |-> name]]] :
        name \in {"input", "total", "other"} }

InitComputed == InitStores /\ klass \in [Classes -> ComputedClasses]

DeclareRef ==
    \E propertyKey \in {"input", "total"} :
        Ref("MyComponent", propertyKey)

WriteComputedOptions == \E written \in ComputedWritten : AllUsed /\ Component(written)

NextComputed == DeclareRef \/ WriteComputedOptions \/ Decorate

SpecComputed == InitComputed /\ [][NextComputed]_vars

\* the members decorated with @Ref in VueClass
RefDeclared(VueClass) ==
    { declared[n].propertyKey :
        n \in { m \in 1..Len(declared) :
                  declared[m].decorator = "Ref" /\ declared[m].target = VueClass } }

\* the own members of the prototype that have a getter or a setter
AccessorMembers(VueClass) ==
    { m \in DOMAIN klass[VueClass].proto : klass[VueClass].proto[m] = "accessor" }

(* C15: the assembled computed section has the accessor members of the     *)
(* prototype, the @Ref members and the keys of options.computed as its     *)
(* keys; a key of options.computed has the value written there, also when  *)
(* it is a @Ref member; any other @Ref member has its synthetic accessor   *)
(* and any other accessor member its own accessor.                         *)
C15_OptionsComputedWins ==
    \A i \in Returned :
        LET c        == calls[i].VueClass
            computed == Output(i)["computed"]
            written  == IF "computed" \in DOMAIN calls[i].given
                        THEN calls[i].given["computed"] ELSE EmptyMap
        IN  /\ DOMAIN computed =
                  AccessorMembers(c) \cup RefDeclared(c) \cup DOMAIN written
            /\ \A k \in DOMAIN computed :
                  computed[k] =
                    IF k \in DOMAIN written THEN written[k]
                    ELSE IF k \in RefDeclared(c)
                    THEN [kind |-> "ref", of |-> c, name |-> k]
                    ELSE [kind |-> "accessor", of |-> c, name |-> k]


-----------------------------------------------------------------------------
(* The data function                                                       *)

\* class MyComponent { spaghetti = { delicious : 1, sauce : { hot : 1 } };
\*                     count = 1; mounted() {} }
DataClasses ==
    { ClassDecl("MyComponent", Method({"mounted"}),
                [k \in {"spaghetti", "count"} |->
                    IF k = "count" THEN Value(1)
                    ELSE [kind |-> "object",
                          value |-> << [d \in {"delicious", "sauce"} |->
                                          IF d = "sauce" THEN At(2) ELSE Value(1)],
                                       [d \in {"hot"} |-> Value(1)] >>]]) }

\* Component(), Component({ data() { return { count : 2 } } }),
\* Component({ data() { return { extra : 2 } } }),
\* Component({ props : { count : null } })
DataWritten ==
    { EmptyMap,
      [k \in {"data"} |->
          [kind |-> "function", returns |-> [p \in {"count"} |-> Value(2)]]],
      [k \in {"data"} |->
          [kind |-> "function", returns |-> [p \in {"extra"} |-> Value(2)]]],
      [k \in {"props"} |-> [p \in {"count"} |-> [kind |-> "null"]]] }

InitData == InitStores /\ klass \in [Classes -> DataClasses]

DeclareDataProp ==
    \E propOptions \in { [kind |-> "function", type |-> Some("Number")] } :
        Prop("MyComponent", "count", propOptions)

\* the one options object of the component
WriteDataOptions ==
    \E written \in DataWritten : options = << >> /\ Component(written)

CreateComponent == \E id \in 1..Len(options) : DataFunction(id)

MutateData ==
    \E address \in 1..Len(objects), key \in {"spaghetti", "count", "delicious", "sauce", "hot"} :
        Mutate(address, key)

NextData ==
    DeclareDataProp \/ WriteDataOptions \/ Decorate \/ CreateComponent \/ MutateData

SpecData == InitData /\ [][NextData]_vars

\* the data function that was called, its class, and the call of Component
\* that assembled it
FactoryOf(n)  == options[returned[n].options]["data"]
ClassOf(n)    == FactoryOf(n).VueClass
AssembledBy(n) ==
    CHOOSE i \in 1..Len(calls) : calls[i].options = returned[n].options /\ ~calls[i].threw

\* what options.data() returned
GivenData(n) ==
    IF "data" \in DOMAIN calls[AssembledBy(n)].given
    THEN calls[AssembledBy(n)].given["data"].returns ELSE EmptyMap

\* the fields the classifier takes as plain data: not an accessor, not a
\* function, not a component option, not a prop, not a ref, not injected
PlainDataMembers(n) ==
    LET fields    == klass[ClassOf(n)].fields
        assembled == Output(AssembledBy(n))
    IN  { k \in DOMAIN fields :
            /\ fields[k].kind \notin {"accessor", "function"}
            /\ k \notin excludedProperties
            /\ ~(k \in DOMAIN assembled["props"] /\ assembled["props"][k].kind # "null")
            /\ k \notin RefDeclared(ClassOf(n))
            /\ k \notin DOMAIN assembled["inject"].map }

(* C16: the object a call of the assembled data function returns has the   *)
(* plain-data members and the keys of what options.data() returns as its   *)
(* keys, no other, and a key of both has the value options.data() gave it. *)
C16_DataKeys ==
    \A n \in 1..Len(returned) :
        /\ DOMAIN returned[n].value = PlainDataMembers(n) \cup DOMAIN GivenData(n)
        /\ \A k \in DOMAIN GivenData(n) : returned[n].value[k] = GivenData(n)[k]

(* C16, amended: the object a call of the assembled data function returns  *)
(* has the plain-data members, `constructor` and the keys of what          *)
(* options.data() returns as its keys, no other; a key of options.data()   *)
(* has the value given there, and constructor is otherwise the class.      *)
C16_DataKeysAndConstructor ==
    \A n \in 1..Len(returned) :
        /\ DOMAIN returned[n].value =
              PlainDataMembers(n) \cup {"constructor"} \cup DOMAIN GivenData(n)
        /\ \A k \in DOMAIN GivenData(n) : returned[n].value[k] = GivenData(n)[k]
        /\ "constructor" \notin DOMAIN GivenData(n)
              => returned[n].value["constructor"] =
                   [kind |-> "class", value |-> ClassOf(n)]

C16_Witness ==
    \E n \in 1..Len(returned) :
        /\ DOMAIN GivenData(n) = {"count"}
        /\ "count" \in PlainDataMembers(n)
        /\ DOMAIN returned[n].value = {"spaghetti", "count", "constructor"}
        /\ returned[n].value["count"] = Value(2)

\* the values of the fields of a new instance of the class
InitialValues(VueClass) ==
    LET fresh == NewInstance(VueClass, << >>)
    IN  [k \in DOMAIN fresh.instance |->
            ReadOut(fresh.objects, fresh.instance[k], MaxNesting - 1)]

(* C17: every call of the assembled data function returns, for each plain- *)
(* data member that options.data() does not give, the value the field had  *)
(* when the class was compiled, whatever was assigned to the data returned *)
(* before; no object is reached from two returned objects, and none from a *)
(* returned object and the data kept by the data function.                 *)
C17_DeepCopy ==
    /\ \A n \in 1..Len(returned) :
          /\ \A k \in DOMAIN FactoryOf(n).data \ DOMAIN GivenData(n) :
                returned[n].value[k] = InitialValues(ClassOf(n))[k]
          /\ Reachable(objects, { returned[n].object })
                \cap Reachable(objects,
                      UNION { Refs(FactoryOf(n).data[k]) : k \in DOMAIN FactoryOf(n).data })
                = {}
    /\ \A m, n \in 1..Len(returned) :
          m # n => Reachable(objects, { returned[m].object })
                     \cap Reachable(objects, { returned[n].object }) = {}

C17_Witness ==
    \E m, n \in 1..Len(returned) :
        /\ m < n
        /\ returned[m].options = returned[n].options
        /\ returned[n].overwritten = 2
        /\ \E a \in Reachable(objects, { returned[m].object }) :
              "hot" \in DOMAIN objects[a] /\ objects[a]["hot"] = Written
        /\ returned[n].value["spaghetti"]["sauce"]["hot"] = Value(1)


-----------------------------------------------------------------------------
(* Props, watchers, methods and injections from both sources               *)

\* class MyComponent { a = 1; b = 1; foo() {} onChange() {} }
MergeClasses ==
    { ClassDecl("MyComponent", Method({"foo", "onChange"}), Fields({"a", "b"})) }

\* an options object with one of: props : { a : { type : String } },
\* watch : { a : { handler : w } }, methods : { foo : f },
\* inject : { b : { from : 'x' } }, inject : [ 'b', 'c' ]
MergeWritten ==
    { EmptyMap,
      [k \in {"props"} |->
          [p \in {"a"} |-> [kind |-> "object", type |-> Some("String")]]],
      [k \in {"watch"} |->
          [x \in {"a"} |-> [h \in {"handler"} |-> Some(OptionsFn("w"))]]],
      [k \in {"methods"} |-> [m \in {"foo"} |-> OptionsFn("f")]],
      [k \in {"inject"} |->
          [shape |-> "object",
           map |-> [n \in {"b"} |-> InjectConfig("b", Some("x"), undefined)]]],
      [k \in {"inject"} |-> [shape |-> "array", items |-> << "b", "c" >>]] }

InitMerge == InitStores /\ klass \in [Classes -> MergeClasses]

\* @Prop() a, @Watch('a') onChange() {}, @Inject() b
DeclareMember ==
    \/ Prop("MyComponent", "a", [kind |-> "function", type |-> Some("Number")])
    \/ Watch("MyComponent", "onChange", "a", EmptyMap)
    \/ Inject("MyComponent", "b", undefined, undefined)

WriteMergeOptions == \E written \in MergeWritten : AllUsed /\ Component(written)

NextMerge == DeclareMember \/ WriteMergeOptions \/ Decorate

SpecMerge == InitMerge /\ [][NextMerge]_vars

\* the keys the decorators of VueClass record for a section: the member for
\* a prop and for an injection, the expression for a watcher
DeclaredKeys(decorator, VueClass) ==
    { IF decorator = "Watch" THEN declared[n].args[1] ELSE declared[n].propertyKey :
        n \in { m \in 1..Len(declared) :
                  /\ declared[m].decorator = decorator
                  /\ declared[m].target = VueClass } }

\* the keys the class gives to a section
ClassKeys(section, VueClass) ==
    IF section = "props" THEN DeclaredKeys("Prop", VueClass)
    ELSE IF section = "watch" THEN DeclaredKeys("Watch", VueClass)
    ELSE IF section = "inject" THEN DeclaredKeys("Inject", VueClass)
    ELSE FunctionMembers(VueClass) \ HookNameSet

\* the fragment of the options object for a section, a list of injected
\* names taken as the map of the names to empty configurations
Fragment(section, given) ==
    IF section \notin DOMAIN given THEN EmptyMap
    ELSE IF section # "inject" THEN given[section]
    ELSE IF given["inject"].shape = "array"
    THEN [n \in Range(given["inject"].items) |-> EmptyMap]
    ELSE given["inject"].map

Assembled(section, output) ==
    IF section = "inject" THEN output["inject"].map ELSE output[section]

(* C18: each of the assembled sections props, watch, methods and inject    *)
(* has as keys the keys the class gives to it and the keys of the fragment *)
(* of the options object, and a key of the fragment has the fragment's     *)
(* value.                                                                  *)
C18_OptionsWinPerKey ==
    \A i \in Returned, section \in {"props", "watch", "methods", "inject"} :
        LET fragment == Fragment(section, calls[i].given)
            section_ == Assembled(section, Output(i))
        IN  /\ DOMAIN section_ =
                  ClassKeys(section, calls[i].VueClass) \cup DOMAIN fragment
            /\ \A k \in DOMAIN fragment : section_[k] = fragment[k]

C18_Witness ==
    \E i \in Returned :
        /\ ClassKeys("watch", calls[i].VueClass) = {"a"}
        /\ ClassKeys("inject", calls[i].VueClass) = {"b"}
        /\ "watch" \in DOMAIN calls[i].given
        /\ Output(i)["watch"]["a"]["handler"] = Some(OptionsFn("w"))
        /\ DOMAIN Output(i)["inject"].map = {"b"}
        /\ DOMAIN Output(i)["methods"] = {"constructor", "foo", "onChange"}


(* C19: the name of the assembled object is the name written in the        *)
(* options object whenever one is written there, and the name of the class *)
(* only when none is.                                                      *)
C19_OptionsNameWins ==
    \A i \in Returned :
        Output(i)["name"] =
            IF "name" \in DOMAIN calls[i].given /\ IsDefined(calls[i].given["name"])
            THEN calls[i].given["name"]
            ELSE Some(klass[calls[i].VueClass].name)


-----------------------------------------------------------------------------
(* Provide                                                                 *)

\* class MyComponent { food = 1; bar = 1 }
ProvideClasses ==
    { ClassDecl("MyComponent", Method({"mounted"}), Fields({"food", "bar"})) }

\* a value provided by the options object under a key
Provided(key) == [kind |-> "value", of |-> "options", member |-> key]

\* provide : { food : 1 }, provide() { return { food : 1 } },
\* provide() { return { drink : this.bar } }
ProvideWritten ==
    { EmptyMap,
      [k \in {"provide"} |->
          [kind |-> "object", usesThis |-> FALSE,
           returns |-> [p \in {"food"} |-> Provided(p)]]],
      [k \in {"provide"} |->
          [kind |-> "function", usesThis |-> FALSE,
           returns |-> [p \in {"food"} |-> Provided(p)]]],
      [k \in {"provide"} |->
          [kind |-> "function", usesThis |-> TRUE,
           returns |-> [p \in {"drink"} |-> Provided(p)]]] }

InitProvide == InitStores /\ klass \in [Classes -> ProvideClasses]

\* @Provide() food, @Provide('food') bar, ...
DeclareProvide ==
    \E propertyKey \in {"food", "bar"}, alias \in { undefined, Some("food") } :
        Provide("MyComponent", propertyKey, alias)

WriteProvideOptions == \E written \in ProvideWritten : AllUsed /\ Component(written)

NextProvide == DeclareProvide \/ WriteProvideOptions \/ Decorate

SpecProvide == InitProvide /\ [][NextProvide]_vars

\* the aliases of the @Provide decorators of VueClass, each with the member
\* of the latest decorator that gave it
RECURSIVE ProvideDeclared(_, _)
ProvideDeclared(VueClass, n) ==
    IF n = 0 THEN EmptyMap
    ELSE LET d == declared[n]
         IN  IF d.decorator = "Provide" /\ d.target = VueClass
             THEN Put(ProvideDeclared(VueClass, n - 1),
                      IF IsDefined(d.args) THEN d.args[1] ELSE d.propertyKey,
                      d.propertyKey)
             ELSE ProvideDeclared(VueClass, n - 1)

\* what the provide option gives: what it returns when it is a function,
\* itself when it is an object
GivenProvide(i) ==
    IF "provide" \in DOMAIN calls[i].given
    THEN calls[i].given["provide"].returns ELSE EmptyMap

(* C20: a call of the assembled provide function on a component returns an *)
(* object whose keys are the @Provide aliases and the keys of what the     *)
(* provide option gives; a key of the provide option has the value given   *)
(* there, and any other alias a wrapper that reads its member from the     *)
(* component.                                                              *)
C20_ProvideFactory ==
    \A i \in Returned :
        LET aliases  == ProvideDeclared(calls[i].VueClass, Len(declared))
            written  == GivenProvide(i)
            provided == ProvideOf(Output(i)["provide"], "vm")
        IN  /\ ~provided.threw
            /\ DOMAIN provided.result = DOMAIN aliases \cup DOMAIN written
            /\ \A k \in DOMAIN provided.result :
                  provided.result[k] =
                    IF k \in DOMAIN written THEN written[k]
                    ELSE [kind |-> "computed", of |-> "vm", member |-> aliases[k]]


-----------------------------------------------------------------------------
(* A class and a subclass of it                                            *)

\* class Base extends Vue { a = 1; load() {} }
\* class Derived extends Base { b = 1; reload() {} }
\* A component made with new Derived() has the fields of both.
InitInherit ==
    /\ klass = [c \in {"Base", "Derived"} |->
                  IF c = "Base"
                  THEN ClassDecl("Base", Method({"load"}), Fields({"a"}))
                  ELSE [ClassDecl("Derived", Method({"reload"}), Fields({"a", "b"}))
                           EXCEPT !.parent = "Base"]]
    /\ meta = [c \in DOMAIN klass |-> EmptyMap]
    /\ heap = << >>
    /\ options = << >>
    /\ objects = << >>
    /\ declared = << >>
    /\ calls = << >>
    /\ returned = << >>

\* @Prop(String) a, @Expose() load() {}, @Emits('load') load() {},
\* @Watch('a') load() {}, @Ref() a, @Provide() a, @Inject() a,
\* @Hook('mounted') load() {}, and the same in Derived with b and reload.
\* The body of a class is evaluated, its member decorators applied, before a
\* class that extends it is declared.
DeclareInherited ==
    \E target \in DOMAIN klass :
        LET field  == IF target = "Base" THEN "a" ELSE "b"
            method == IF target = "Base" THEN "load" ELSE "reload"
        IN  /\ \A n \in 1..Len(declared) :
                  klass[declared[n].target].parent # target
            /\ \/ Prop(target, field, [kind |-> "function", type |-> Some("String")])
               \/ Expose(target, method)
               \/ Emits(target, method, << method >>)
               \/ Watch(target, method, field, EmptyMap)
               \/ Ref(target, field)
               \/ Provide(target, field, undefined)
               \/ Inject(target, field, undefined, undefined)
               \/ Hook(target, method, "mounted")

\* @Component() class Base, @Component() class Derived, or the function
\* Component() returns applied to either class later on
DecorateInherited ==
    \E id \in 1..Len(options), VueClass \in DOMAIN klass :
        Unused(id) /\ ComponentDecorator(id, VueClass)

\* the second disjunct: Component()
NextInherit ==
    \/ DeclareInherited
    \/ AllUsed /\ Component(EmptyMap)
    \/ DecorateInherited

SpecInherit == InitInherit /\ [][NextInherit]_vars


\* the classes that extend base
Subclasses(base) == { c \in DOMAIN klass : klass[c].parent = base }

\* the metadata channel a member decorator records in
Channel(decorator) ==
    IF decorator = "Prop" THEN metadataKeys.props
    ELSE IF decorator = "Expose" THEN metadataKeys.expose
    ELSE IF decorator = "Emits" THEN metadataKeys.emits
    ELSE IF decorator = "Watch" THEN metadataKeys.watch
    ELSE IF decorator = "Ref" THEN metadataKeys.ref
    ELSE IF decorator = "Provide" THEN metadataKeys.provide
    ELSE IF decorator = "Inject" THEN metadataKeys.inject
    ELSE metadataKeys.hooks

\* the step applies a decorator to a member of a subclass of base, and base
\* has metadata in the channel of that decorator
SubclassDecorated(base) ==
    /\ Len(declared') = Len(declared) + 1
    /\ declared'[Len(declared')].target \in Subclasses(base)
    /\ Channel(declared'[Len(declared')].decorator) \in DOMAIN meta[base]

\* the output of call i has what the decorators of the class of the call
\* recorded, and nothing else, the options object of the call being empty
AsDeclaredAlone(i) ==
    LET c      == calls[i].VueClass
        output == Output(i)
        expose == ExposeDeclared(c, Len(declared))
    IN  /\ DOMAIN output["props"] = DeclaredKeys("Prop", c)
        /\ DOMAIN output["watch"] = DeclaredKeys("Watch", c)
        /\ DOMAIN output["inject"].map = DeclaredKeys("Inject", c)
        /\ DOMAIN output["computed"] = AccessorMembers(c) \cup RefDeclared(c)
        /\ output["emits"] = FirstOccurrences(EmitsDeclared(c, Len(declared)))
        /\ IF "expose" \in DOMAIN output
           THEN output["expose"] = expose ELSE expose = << >>
        /\ ProvideOf(output["provide"], "vm").result =
              [alias \in DOMAIN ProvideDeclared(c, Len(declared)) |->
                  [kind |-> "computed", of |-> "vm",
                   member |-> ProvideDeclared(c, Len(declared))[alias]]]
        /\ \A name \in HookNameSet \ DOMAIN klass[c].proto :
              output[name].items = Handlers(c, name)

(* C21: a decorator applied to a member of a subclass whose base class has *)
(* metadata in the channel of the decorator leaves the metadata of the     *)
(* base class as it was, in every channel; and the output of compiling a   *)
(* class that has a subclass holds what the decorators of that class       *)
(* recorded and nothing of the subclass.                                   *)
C21_MetadataPerClass ==
    /\ [][\A base \in DOMAIN klass :
            SubclassDecorated(base)
            => MetadataContents'[base] = MetadataContents[base]]_vars
    /\ [](\A i \in Returned :
            (Subclasses(calls[i].VueClass) # {} /\ calls[i].given = EmptyMap)
            => AsDeclaredAlone(i))

====
